---- MODULE Spec2Model ----
(***************************************************************************)
(* The chat gateway of apps/deprecated/api.py: the three generating        *)
(* endpoints (/chat, /stream_chat, /v1/chat/completions), the process-wide *)
(* generation_kwargs dictionary and tokenizer they share, the asyncio      *)
(* event loop that runs the handlers, and the threads that run             *)
(* model.generate and hand text over through a TextIteratorStreamer.       *)
(*                                                                         *)
(* A handler action is the code the event loop runs between two points at  *)
(* which the coroutine gives the loop back (an await, a yield of an        *)
(* async generator) or at which it blocks the loop thread (the             *)
(* synchronous queue read behind "for new_text in streamer", the           *)
(* synchronous model.generate of /chat).  "loop" is the coroutine that     *)
(* holds the loop thread; generation threads step at any time.             *)
(***************************************************************************)
EXTENDS Integers, Sequences, FiniteSets

\* ------------------------------------------------------------- bounds
NumSessions == 2
MaxFrags == 2
ParamSessions == 2
V1Sessions == 1
MaxPrompt == 3
MaxHistory == 2
MaxMessages == 5
MaxTokens == 3

Sessions == 1..NumSessions

\* Python's None: an omitted request field, a key missing from a dict
None == 0

\* ---------------------------------------------------- program constants
FallbackMaxLength == 1024
FallbackTopP == 95
FallbackTemperature == 80
ModelMaxLength == 1024

\* ------------------------------------------------------- input domains
\* text of one fragment the streamer hands over ("" happens: the streamer
\* emits an empty string whenever a token completes no printable text)
FragTexts == {<<>>, <<"a">>}

\* generation parameters a /chat, /stream_chat or /v1 request may carry
\* (top_p and temperature in hundredths)
ReqParams ==
    { [max_generate_length |-> None, top_p |-> None, temperature |-> None],
      [max_generate_length |-> 512,  top_p |-> 50,   temperature |-> 30],
      [max_generate_length |-> 2048, top_p |-> None, temperature |-> 30] }

\* a request that carries none of them
PlainParams ==
    { [max_generate_length |-> None, top_p |-> None, temperature |-> None] }

Roles == {"user", "assistant", "system"}

\* generation_config.to_dict() of the loaded checkpoint, which carries
\* every generation parameter: the library's defaults, or values the
\* checkpoint sets
ConfigParams ==
    { [max_length |-> 20,   top_p |-> 100, temperature |-> 100],
      [max_length |-> 2048, top_p |-> 90,  temperature |-> 70] }

\* ------------------------------------------------------------- texts
\* A text is the sequence of its characters.
\* the literal parts of the f-strings of get_prompt, lines 72, 76 and 77
InstructionMark ==
    <<"\n", "\n", "#", "#", "#", " ", "I", "n", "s", "t", "r", "u", "c", "t",
      "i", "o", "n", ":", "\n">>

ResponseMark ==
    <<"\n", "\n", "#", "#", "#", " ", "R", "e", "s", "p", "o", "n", "s", "e",
      ":", "\n">>

\* the argument of rstrip, lines 125 and 341
ResponseSuffix ==
    <<"\n", "#", "#", "#", " ", "R", "e", "s", "p", "o", "n", "s", "e", ":">>

\* the characters str.strip() removes, among those of the texts below
Whitespace == {"\n", " "}

\* all sequences over S of length 0..n
SeqsUpTo(S, n) == UNION {[1..k -> S] : k \in 0..n}

\* the "prompt" a /chat or /stream_chat request carries
Prompts == SeqsUpTo({"a", "\n"}, MaxPrompt)

\* one turn of a "history": (old_query, response)
Turns == { <<<<"a">>, <<"b">>>>, <<<<"b">>, <<>>>> }

\* the "history" a /chat or /stream_chat request carries
Histories == SeqsUpTo(Turns, MaxHistory)

Bodies == [prompt : Prompts, history : Histories]

\* a first request of a conversation, with a one-letter prompt
PlainBodies == { [prompt |-> <<"a">>, history |-> <<>>] }

\* request.messages of a /v1/chat/completions request: at least one
\* ChatMessage (role, content)
ChatMessages == [role : Roles, content : {<<"a">>, <<"b">>}]

Messages == SeqsUpTo(ChatMessages, MaxMessages) \ {<<>>}

\* a request with one message
PlainMessages == { <<[role |-> r, content |-> <<"a">>]>> : r \in Roles }

\* tokenizer.eos_token_id, and the tokens generate returns after the
\* prompt, named by the text tokenizer.decode gives for them
EosToken == "</s>"

Vocabulary == {"a", "s", "\n", "### Response:", EosToken}

Outputs == SeqsUpTo(Vocabulary, MaxTokens)

PlainOutputs == { <<"a", EosToken>> }

VARIABLES
    generation_kwargs,  \* the process-wide dict passed to model.generate
    model_max_length,   \* tokenizer.model_max_length
    loop,               \* coroutine holding the event-loop thread, or None
    session,            \* per request: endpoint, position, locals, output
    gen,                \* per request: its model.generate call
    text_queue,         \* per TextIteratorStreamer: its queue of items
    disconnected        \* per request: the client has closed the connection

vars == <<generation_kwargs, model_max_length, loop, session, gen,
          text_queue, disconnected>>

\* ------------------------------------------------------------ helpers
\* dict.get(key, default)
DictGet(v, default) == IF v = None THEN default ELSE v

\* lines 95-103 (and 150-158): request value, else process-wide value,
\* else the hardcoded fallback; the result is stored process-wide
ResolveMaxLength(r, gk) ==
    DictGet(r.max_generate_length, DictGet(gk.max_length, FallbackMaxLength))

ResolveTopP(r, gk) == DictGet(r.top_p, DictGet(gk.top_p, FallbackTopP))

ResolveTemperature(r, gk) ==
    DictGet(r.temperature, DictGet(gk.temperature, FallbackTemperature))

SetParams(r, gk) ==
    [gk EXCEPT !.max_length = ResolveMaxLength(r, gk),
               !.top_p = ResolveTopP(r, gk),
               !.temperature = ResolveTemperature(r, gk)]

\* lines 104-108 (and 159-163): the tokenizer window after the request
ClampWindowNever(w, max_length) == w

ClampWindow(w, max_length) == IF w > max_length THEN max_length ELSE w

\* "for k, v in inputs.items(): generation_kwargs[k] = v.to(DEVICE)"
SetInputs(gk, s) == [gk EXCEPT !.input_ids = s, !.attention_mask = s]

\* generation_kwargs["streamer"] = streamer
SetStreamer(gk, s) == [gk EXCEPT !.streamer = s]

\* line 301: the last message must come from the user
ValidLastRoleLax(role) == role # "system"

ValidLastRole(role) == role = "user"

\* line 389: predict drops a fragment with no text
SkipFragmentNever(text) == FALSE

SkipFragment(text) == Len(text) = 0

\* the characters of a text, as a set: what str.lstrip(chars) and
\* str.rstrip(chars) make of their argument
CharsOf(text) == {text[i] : i \in 1..Len(text)}

\* str.lstrip(chars): the text from its first character not in chars on
LStrip(text, chars) ==
    LET keep == {i \in 1..Len(text) : text[i] \notin chars}
    IN IF keep = {} THEN <<>>
       ELSE SubSeq(text, CHOOSE i \in keep : \A j \in keep : i <= j,
                   Len(text))

\* str.rstrip(chars): the text up to its last character not in chars
RStrip(text, chars) ==
    LET keep == {i \in 1..Len(text) : text[i] \notin chars}
    IN IF keep = {} THEN <<>>
       ELSE SubSeq(text, 1, CHOOSE i \in keep : \A j \in keep : j <= i)

\* str.strip(): whitespace removed at both ends
Strip(text) == LStrip(RStrip(text, Whitespace), Whitespace)

\* get_prompt, lines 70-78: "not history" is the empty list (or None); the
\* loop appends one block per turn, then the block of the query
get_promptLastOnly(query, history) ==
    InstructionMark \o query \o ResponseMark

get_prompt(query, history) ==
    IF history = <<>>
    THEN InstructionMark \o query \o ResponseMark
    ELSE LET prompt[i \in 0..Len(history)] ==
                 IF i = 0 THEN <<>>
                 ELSE prompt[i - 1] \o InstructionMark \o history[i][1]
                        \o ResponseMark \o history[i][2]
         IN prompt[Len(history)] \o InstructionMark \o query \o ResponseMark

\* tokenizer.decode(tok_id) of one generated token
Decode(tok) == IF tok = "### Response:" THEN Tail(ResponseSuffix) ELSE <<tok>>

\* lines 121-124 (and 337-340): the decoded tokens other than eos, joined
DecodeOutput(output) ==
    LET response[i \in 0..Len(output)] ==
            IF i = 0 THEN <<>>
            ELSE IF output[i] # EosToken
                 THEN response[i - 1] \o Decode(output[i])
                 ELSE response[i - 1]
    IN response[Len(output)]

\* line 125 (and 341): response.lstrip("\n").rstrip("\n### Response:")
CleanResponse(response) ==
    RStrip(LStrip(response, {"\n"}), CharsOf(ResponseSuffix))

\* line 305: request.messages[:-1]
PrevMessages(messages) == SubSeq(messages, 1, Len(messages) - 1)

\* line 306: the message list starts with a system message
LeadingSystemNever(prev) == FALSE

LeadingSystem(prev) == Len(prev) > 0 /\ prev[1].role = "system"

\* lines 303-307: the query, with the content of a leading system message
\* in front of it
V1Query(messages) ==
    LET query == messages[Len(messages)].content
        prev == PrevMessages(messages)
    IN IF LeadingSystem(prev) THEN prev[1].content \o query ELSE query

\* lines 305-307: prev_messages after the pop(0) of a leading system message
V1Prior(messages) ==
    LET prev == PrevMessages(messages)
    IN IF LeadingSystem(prev) THEN Tail(prev) ELSE prev

\* lines 312-315: two consecutive messages make a turn of the history
IsTurnAny(first, second) == TRUE

IsTurn(first, second) == first.role = "user" /\ second.role = "assistant"

\* lines 309-321: history of an even number of prior messages, pair by
\* pair (i is range(0, len, 2) counted from 1); of an odd number, empty
V1History(prev) ==
    IF Len(prev) % 2 = 0
    THEN LET history[k \in 0..(Len(prev) \div 2)] ==
                 IF k = 0 THEN <<>>
                 ELSE IF IsTurn(prev[2 * k - 1], prev[2 * k])
                      THEN Append(history[k - 1],
                                  <<prev[2 * k - 1].content,
                                    prev[2 * k].content>>)
                      ELSE history[k - 1]
         IN history[Len(prev) \div 2]
    ELSE <<>>

\* the stop signal a streamer puts after its last text
IsStop(item) == item.stop

Fragment(s, t) == [by |-> s, stop |-> FALSE, text |-> t]
StopSignal(s) == [by |-> s, stop |-> TRUE, text |-> <<>>]

\* one chunk predict yields; "by" is the request whose generate call
\* produced the text it carries ("last" is empty: a chunk has no history)
Event(name, text, last, fin, by) ==
    [event |-> name, response |-> text, last |-> last, finish |-> fin,
     by |-> by]

\* lines 197-207 and 211-221: an event of /stream_chat, whose data carry
\* the fragment, history + [(prompt, last_msg)] and the finish flag
StreamEvent(name, new_text, history, prompt, last_msg, fin, by) ==
    [event |-> name, response |-> new_text,
     history |-> history \o << <<prompt, last_msg>> >>,
     finish |-> fin, by |-> by]

\* lines 129-134: the answer of /chat (of /v1: the message content)
Answer(response, history) ==
    [status |-> 200, response |-> response, history |-> history]

NoAnswer == [status |-> None, response |-> <<>>, history |-> <<>>]

NoRequest ==
    [max_generate_length |-> None, top_p |-> None, temperature |-> None]

IdleSession ==
    [kind |-> "none", pc |-> "idle", req |-> NoRequest, stream |-> FALSE,
     last_role |-> "user", defaults |-> NoRequest,
     bound |-> FALSE, new_text |-> <<>>, new_by |-> None,
     last_msg |-> <<>>,
     messages |-> <<>>, prompt |-> <<>>, history |-> <<>>,
     query |-> <<>>, rendered |-> <<>>, input_text |-> <<>>,
     output |-> <<>>, answer |-> NoAnswer,
     events |-> <<>>, taken |-> <<>>, tokenized |-> FALSE,
     saw_disconnect |-> FALSE, events_at_detect |-> 0,
     produced_at_detect |-> 0, running_at_detect |-> FALSE, gc |-> 0]

NoCall ==
    [state |-> "none", kwargs |-> [max_length |-> None, top_p |-> None,
                                   temperature |-> None, input_ids |-> None,
                                   attention_mask |-> None,
                                   streamer |-> None],
     produced |-> 0, out |-> <<>>]

\* requests arrive in the order of their ids
CanArrive(s) ==
    /\ session[s].kind = "none"
    /\ IF s = 1 THEN TRUE ELSE session[s - 1].kind # "none"
    /\ loop = None

Init ==
    /\ \E c \in ConfigParams :
          generation_kwargs = [max_length |-> c.max_length,
                               top_p |-> c.top_p,
                               temperature |-> c.temperature,
                               input_ids |-> None,
                               attention_mask |-> None,
                               streamer |-> None]
    /\ model_max_length = ModelMaxLength
    /\ loop = None
    /\ session = [s \in Sessions |-> IdleSession]
    /\ gen = [s \in Sessions |-> NoCall]
    /\ text_queue = [s \in Sessions |-> <<>>]
    /\ disconnected = [s \in Sessions |-> FALSE]

\* ------------------------------------------------------ POST /chat/
\* create_item, lines 87-120: parameters, window, tokenizer, and the call
\* model.generate(**inputs, **generation_kwargs) made on the loop thread.
\* A key of inputs that is also in generation_kwargs makes the call a
\* TypeError (duplicate keyword argument).  The prompt loses its leading
\* newlines (line 110) and the rendered prompt its outer whitespace (112).
ChatStart(s, r, b) ==
    /\ CanArrive(s)
    /\ LET gk == SetParams(r, generation_kwargs)
           dup == gk.input_ids # None \/ gk.attention_mask # None
           prompt == LStrip(b.prompt, {"\n"})
           query == get_prompt(prompt, b.history)
       IN /\ generation_kwargs' = gk
          /\ model_max_length' = ClampWindow(model_max_length, gk.max_length)
          /\ session' = [session EXCEPT
                ![s].kind = "chat",
                ![s].req = r,
                ![s].prompt = b.prompt,
                ![s].history = b.history,
                ![s].query = prompt,
                ![s].rendered = query,
                ![s].input_text = Strip(query),
                ![s].defaults = [max_generate_length |-> generation_kwargs.max_length,
                                 top_p |-> generation_kwargs.top_p,
                                 temperature |-> generation_kwargs.temperature],
                ![s].tokenized = TRUE,
                ![s].pc = IF dup THEN "error500" ELSE "chat_generate"]
          /\ gen' = IF dup THEN gen
                    ELSE [gen EXCEPT ![s].state = "running",
                                     ![s].kwargs = SetInputs(gk, s)]
          /\ loop' = IF dup THEN None ELSE s
    /\ UNCHANGED <<text_queue, disconnected>>

\* lines 120-138: generate returns output, the answer is built from it
\* ("history += [(prompt, response)]" with the prompt of line 110; the list
\* extended is the one decoded from the request body), torch_gc runs
ChatReturn(s, output) ==
    /\ loop = s
    /\ session[s].pc = "chat_generate"
    /\ gen' = [gen EXCEPT ![s].state = "ended"]
    /\ LET response == CleanResponse(DecodeOutput(output))
       IN session' = [session EXCEPT
             ![s].output = output,
             ![s].answer = Answer(response,
                                  session[s].history
                                    \o << <<session[s].query, response>> >>),
             ![s].pc = "done",
             ![s].gc = @ + 1]
    /\ loop' = None
    /\ UNCHANGED <<generation_kwargs, model_max_length, text_queue,
                   disconnected>>

\* line 120: generate raises; the exception leaves the handler
ChatRaise(s) ==
    /\ loop = s
    /\ session[s].pc = "chat_generate"
    /\ gen' = [gen EXCEPT ![s].state = "failed"]
    /\ session' = [session EXCEPT ![s].pc = "error500"]
    /\ loop' = None
    /\ UNCHANGED <<generation_kwargs, model_max_length, text_queue,
                   disconnected>>

\* ------------------------------------------------- GET /stream_chat
\* stream_chat, lines 142-163 and 224-226: parameters, window, and the
\* response object around the generator, which has not run yet
StreamStart(s, r, b) ==
    /\ CanArrive(s)
    /\ LET gk == SetParams(r, generation_kwargs)
       IN /\ generation_kwargs' = gk
          /\ model_max_length' = ClampWindow(model_max_length, gk.max_length)
    /\ session' = [session EXCEPT
          ![s].kind = "stream",
          ![s].req = r,
          ![s].prompt = b.prompt,
          ![s].history = b.history,
          ![s].defaults = [max_generate_length |-> generation_kwargs.max_length,
                           top_p |-> generation_kwargs.top_p,
                           temperature |-> generation_kwargs.temperature],
          ![s].pc = "sg_init"]
    /\ UNCHANGED <<loop, gen, text_queue, disconnected>>

\* event_generator, lines 169-191: streamer, tokenizer, inputs and streamer
\* stored in generation_kwargs, thread started, and the first read of the
\* streamer, which blocks the loop thread until an item is there
StreamInit(s) ==
    /\ loop = None
    /\ session[s].pc = "sg_init"
    /\ generation_kwargs' = SetStreamer(SetInputs(generation_kwargs, s), s)
    /\ gen' = [gen EXCEPT ![s].state = "started"]
    /\ LET query == get_prompt(session[s].prompt, session[s].history)
       IN session' = [session EXCEPT ![s].query = session[s].prompt,
                                     ![s].rendered = query,
                                     ![s].input_text = query,
                                     ![s].tokenized = TRUE,
                                     ![s].pc = "sg_get"]
    /\ loop' = s
    /\ UNCHANGED <<model_max_length, text_queue, disconnected>>

\* lines 211-222 up to the yield: the finish event, built from new_text
\* (an UnboundLocalError when the loop body never ran)
FinishStep(ss, s) ==
    IF ~ss[s].bound
    THEN [ss EXCEPT ![s].pc = "crashed"]
    ELSE [ss EXCEPT
            ![s].events = Append(@, StreamEvent("finish", ss[s].new_text,
                                                ss[s].history, ss[s].prompt,
                                                ss[s].last_msg, TRUE,
                                                ss[s].new_by)),
            ![s].pc = "sg_finish_yielded"]

\* line 191: the streamer hands over its next item; a text goes on to the
\* await of line 193, the stop signal ends the loop
StreamGet(s) ==
    /\ loop = s
    /\ session[s].pc = "sg_get"
    /\ text_queue[s] # <<>>
    /\ LET item == Head(text_queue[s])
       IN /\ text_queue' = [text_queue EXCEPT ![s] = Tail(@)]
          /\ session' =
               IF IsStop(item)
               THEN FinishStep(session, s)
               ELSE [session EXCEPT ![s].new_text = item.text,
                                    ![s].new_by = item.by,
                                    ![s].bound = TRUE,
                                    ![s].taken = Append(@, item),
                                    ![s].pc = "sg_poll"]
    /\ loop' = None
    /\ UNCHANGED <<generation_kwargs, model_max_length, gen, disconnected>>

\* lines 193-207: request.is_disconnected() answers; break and the finish
\* event, or the new_message event
StreamPoll(s) ==
    /\ loop = None
    /\ session[s].pc = "sg_poll"
    /\ session' =
         IF disconnected[s]
         THEN FinishStep([session EXCEPT
                            ![s].saw_disconnect = TRUE,
                            ![s].events_at_detect = Len(session[s].events),
                            ![s].produced_at_detect = gen[s].produced,
                            ![s].running_at_detect =
                                gen[s].state \in {"started", "running"}], s)
         ELSE [session EXCEPT
                 ![s].events = Append(@, StreamEvent("new_message",
                                                     session[s].new_text,
                                                     session[s].history,
                                                     session[s].prompt,
                                                     session[s].last_msg,
                                                     FALSE,
                                                     session[s].new_by)),
                 ![s].pc = "sg_yielded"]
    /\ UNCHANGED <<generation_kwargs, model_max_length, loop, gen,
                   text_queue, disconnected>>

\* line 208 and back to line 191: the generator is resumed after the yield
StreamResume(s) ==
    /\ loop = None
    /\ session[s].pc = "sg_yielded"
    /\ session' = [session EXCEPT
          ![s].last_msg = @ \o session[s].new_text,
          ![s].pc = "sg_get"]
    /\ loop' = s
    /\ UNCHANGED <<generation_kwargs, model_max_length, gen, text_queue,
                   disconnected>>

\* line 222: resumed after the finish event; torch_gc, end of the stream
StreamClose(s) ==
    /\ loop = None
    /\ session[s].pc = "sg_finish_yielded"
    /\ session' = [session EXCEPT ![s].gc = @ + 1, ![s].pc = "done"]
    /\ UNCHANGED <<generation_kwargs, model_max_length, loop, gen,
                   text_queue, disconnected>>

\* the client of a /stream_chat request closes its connection
ClientDisconnect(s) ==
    /\ session[s].kind = "stream"
    /\ session[s].pc \notin {"done", "crashed"}
    /\ ~disconnected[s]
    /\ disconnected' = [disconnected EXCEPT ![s] = TRUE]
    /\ UNCHANGED <<generation_kwargs, model_max_length, loop, session, gen,
                   text_queue>>

\* ---------------------------------------- the model.generate calls
\* Thread.run: target(**kwargs) reads the shared dict when the thread runs
GenBegin(s) ==
    /\ gen[s].state = "started"
    /\ gen' = [gen EXCEPT ![s].state = "running",
                          ![s].kwargs = generation_kwargs]
    /\ UNCHANGED <<generation_kwargs, model_max_length, loop, session,
                   text_queue, disconnected>>

\* generate hands one text to the streamer named in its kwargs
GenPut(s, t) ==
    /\ gen[s].state = "running"
    /\ gen[s].kwargs.streamer # None
    /\ gen[s].produced < MaxFrags
    /\ text_queue' = [text_queue EXCEPT
          ![gen[s].kwargs.streamer] = Append(@, Fragment(s, t))]
    /\ gen' = [gen EXCEPT ![s].produced = @ + 1, ![s].out = Append(@, t)]
    /\ UNCHANGED <<generation_kwargs, model_max_length, loop, session,
                   disconnected>>

\* generate ends (end of sequence or length bound): streamer.end() puts the
\* stop signal
GenEnd(s) ==
    /\ gen[s].state = "running"
    /\ session[s].kind # "chat"
    /\ gen' = [gen EXCEPT ![s].state = "ended"]
    /\ text_queue' =
         IF gen[s].kwargs.streamer # None
         THEN [text_queue EXCEPT
                 ![gen[s].kwargs.streamer] = Append(@, StopSignal(s))]
         ELSE text_queue
    /\ UNCHANGED <<generation_kwargs, model_max_length, loop, session,
                   disconnected>>

\* generate raises in its thread: the thread dies, nothing is put
GenFail(s) ==
    /\ gen[s].state = "running"
    /\ session[s].kind # "chat"
    /\ gen' = [gen EXCEPT ![s].state = "failed"]
    /\ UNCHANGED <<generation_kwargs, model_max_length, loop, session,
                   text_queue, disconnected>>

\* ------------------------------------- POST /v1/chat/completions
\* create_chat_completion, lines 298-335: the role check, then either the
\* response around predict (stream) or tokenizer, inputs stored in
\* generation_kwargs and generate handed to the executor with the dict's
\* content at the time of the call
V1Start(s, r, stream, messages) ==
    /\ CanArrive(s)
    /\ LET role == messages[Len(messages)].role
           ok == ValidLastRole(role)
           direct == ok /\ ~stream
           gk == SetInputs(generation_kwargs, s)
           query == V1Query(messages)
           history == V1History(V1Prior(messages))
           query_text == Strip(LStrip(query, {"\n"}))
           input_text == get_prompt(query_text, history)
       IN /\ session' = [session EXCEPT
                ![s].kind = "v1",
                ![s].req = r,
                ![s].stream = stream,
                ![s].last_role = role,
                ![s].messages = messages,
                ![s].prompt = IF ok THEN query ELSE <<>>,
                ![s].history = IF ok THEN history ELSE <<>>,
                ![s].query = IF direct THEN query_text ELSE <<>>,
                ![s].rendered = IF direct THEN input_text ELSE <<>>,
                ![s].input_text = IF direct THEN input_text ELSE <<>>,
                ![s].defaults = [max_generate_length |-> generation_kwargs.max_length,
                                 top_p |-> generation_kwargs.top_p,
                                 temperature |-> generation_kwargs.temperature],
                ![s].tokenized = direct,
                ![s].pc = IF ~ok THEN "rejected400"
                          ELSE IF stream THEN "pr_init" ELSE "v1_await"]
          /\ generation_kwargs' = IF direct THEN gk ELSE generation_kwargs
          /\ gen' = IF direct
                    THEN [gen EXCEPT ![s].state = "running", ![s].kwargs = gk]
                    ELSE gen
    /\ UNCHANGED <<model_max_length, loop, text_queue, disconnected>>

\* lines 335-353: the executor's generate has returned output; the answer
V1Return(s, output) ==
    /\ loop = None
    /\ session[s].pc = "v1_await"
    /\ gen[s].state = "ended"
    /\ session' = [session EXCEPT
          ![s].output = output,
          ![s].answer = Answer(CleanResponse(DecodeOutput(output)), <<>>),
          ![s].pc = "done"]
    /\ UNCHANGED <<generation_kwargs, model_max_length, loop, gen,
                   text_queue, disconnected>>

\* line 335: the executor's generate has raised; the await raises
V1Raise(s) ==
    /\ loop = None
    /\ session[s].pc = "v1_await"
    /\ gen[s].state = "failed"
    /\ session' = [session EXCEPT ![s].pc = "error500"]
    /\ UNCHANGED <<generation_kwargs, model_max_length, loop, gen,
                   text_queue, disconnected>>

\* predict, lines 359-371: the chunk that announces the assistant's turn
PredictInit(s) ==
    /\ loop = None
    /\ session[s].pc = "pr_init"
    /\ session' = [session EXCEPT
          ![s].events = Append(@, Event("role", <<>>, <<>>, FALSE, None)),
          ![s].pc = "pr_role_yielded"]
    /\ UNCHANGED <<generation_kwargs, model_max_length, loop, gen,
                   text_queue, disconnected>>

\* lines 373-388: streamer, tokenizer, inputs and streamer stored in
\* generation_kwargs, thread started, first blocking read of the streamer
PredictSetup(s) ==
    /\ loop = None
    /\ session[s].pc = "pr_role_yielded"
    /\ generation_kwargs' = SetStreamer(SetInputs(generation_kwargs, s), s)
    /\ gen' = [gen EXCEPT ![s].state = "started"]
    /\ LET input_text == get_prompt(session[s].prompt, session[s].history)
       IN session' = [session EXCEPT ![s].query = session[s].prompt,
                                     ![s].rendered = input_text,
                                     ![s].input_text = input_text,
                                     ![s].tokenized = TRUE,
                                     ![s].pc = "pr_get"]
    /\ loop' = s
    /\ UNCHANGED <<model_max_length, text_queue, disconnected>>

\* lines 388-415: the streamer hands over its next item: an empty text is
\* dropped and the read repeated, a text is yielded as a content chunk,
\* the stop signal ends the loop and the stop chunk is yielded
PredictGet(s) ==
    /\ loop = s
    /\ session[s].pc = "pr_get"
    /\ text_queue[s] # <<>>
    /\ LET item == Head(text_queue[s])
       IN /\ text_queue' = [text_queue EXCEPT ![s] = Tail(@)]
          /\ session' =
               IF IsStop(item)
               THEN [session EXCEPT
                       ![s].events = Append(@, Event("stop", <<>>, <<>>,
                                                     TRUE, None)),
                       ![s].pc = "pr_stop_yielded"]
               ELSE IF SkipFragment(item.text)
               THEN [session EXCEPT ![s].taken = Append(@, item)]
               ELSE [session EXCEPT
                       ![s].taken = Append(@, item),
                       ![s].events = Append(@, Event("content", item.text,
                                                     <<>>, FALSE, item.by)),
                       ![s].pc = "pr_yielded"]
          /\ loop' = IF ~IsStop(item) /\ SkipFragment(item.text)
                     THEN s ELSE None
    /\ UNCHANGED <<generation_kwargs, model_max_length, gen, disconnected>>

\* back to line 388 after a content chunk was sent
PredictResume(s) ==
    /\ loop = None
    /\ session[s].pc = "pr_yielded"
    /\ session' = [session EXCEPT ![s].pc = "pr_get"]
    /\ loop' = s
    /\ UNCHANGED <<generation_kwargs, model_max_length, gen, text_queue,
                   disconnected>>

\* line 416: the termination marker
PredictDone(s) ==
    /\ loop = None
    /\ session[s].pc = "pr_stop_yielded"
    /\ session' = [session EXCEPT
          ![s].events = Append(@, Event("DONE", <<>>, <<>>, FALSE, None)),
          ![s].pc = "pr_done_yielded"]
    /\ UNCHANGED <<generation_kwargs, model_max_length, loop, gen,
                   text_queue, disconnected>>

\* the generator returns after the marker was sent
PredictEnd(s) ==
    /\ loop = None
    /\ session[s].pc = "pr_done_yielded"
    /\ session' = [session EXCEPT ![s].pc = "done"]
    /\ UNCHANGED <<generation_kwargs, model_max_length, loop, gen,
                   text_queue, disconnected>>

\* ------------------------------------------------- specifications
\* Spec: every endpoint, NumSessions concurrent requests that carry no
\* generation parameter, generate calls that hand over up to MaxFrags texts,
\* fail, and clients that disconnect.
Next ==
    \/ \E s \in Sessions, r \in PlainParams, b \in PlainBodies :
          ChatStart(s, r, b)
    \/ \E s \in Sessions, output \in PlainOutputs : ChatReturn(s, output)
    \/ \E s \in Sessions : ChatRaise(s)
    \/ \E s \in Sessions, r \in PlainParams, b \in PlainBodies :
          StreamStart(s, r, b)
    \/ \E s \in Sessions : StreamInit(s)
    \/ \E s \in Sessions : StreamGet(s)
    \/ \E s \in Sessions : StreamPoll(s)
    \/ \E s \in Sessions : StreamResume(s)
    \/ \E s \in Sessions : StreamClose(s)
    \/ \E s \in Sessions : ClientDisconnect(s)
    \/ \E s \in Sessions : GenBegin(s)
    \/ \E s \in Sessions, t \in FragTexts : GenPut(s, t)
    \/ \E s \in Sessions : GenEnd(s)
    \/ \E s \in Sessions : GenFail(s)
    \/ \E s \in Sessions, r \in PlainParams, stream \in BOOLEAN,
          messages \in PlainMessages : V1Start(s, r, stream, messages)
    \/ \E s \in Sessions, output \in PlainOutputs : V1Return(s, output)
    \/ \E s \in Sessions : V1Raise(s)
    \/ \E s \in Sessions : PredictInit(s)
    \/ \E s \in Sessions : PredictSetup(s)
    \/ \E s \in Sessions : PredictGet(s)
    \/ \E s \in Sessions : PredictResume(s)
    \/ \E s \in Sessions : PredictDone(s)
    \/ \E s \in Sessions : PredictEnd(s)

Spec == Init /\ [][Next]_vars

\* ParamSpec: ParamSessions concurrent requests on every endpoint that carry
\* generation parameters; the generate calls end without handing over text
\* (no step left out touches generation_kwargs or the tokenizer).
ParamNext ==
    \/ \E s \in 1..ParamSessions, r \in ReqParams, b \in PlainBodies :
          ChatStart(s, r, b)
    \/ \E s \in 1..ParamSessions, output \in PlainOutputs :
          ChatReturn(s, output)
    \/ \E s \in 1..ParamSessions : ChatRaise(s)
    \/ \E s \in 1..ParamSessions, r \in ReqParams, b \in PlainBodies :
          StreamStart(s, r, b)
    \/ \E s \in 1..ParamSessions : StreamInit(s)
    \/ \E s \in 1..ParamSessions : StreamGet(s)
    \/ \E s \in 1..ParamSessions : GenBegin(s)
    \/ \E s \in 1..ParamSessions : GenEnd(s)
    \/ \E s \in 1..ParamSessions, r \in ReqParams, stream \in BOOLEAN,
          messages \in PlainMessages : V1Start(s, r, stream, messages)
    \/ \E s \in 1..ParamSessions, output \in PlainOutputs :
          V1Return(s, output)
    \/ \E s \in 1..ParamSessions : PredictInit(s)
    \/ \E s \in 1..ParamSessions : PredictSetup(s)
    \/ \E s \in 1..ParamSessions : PredictGet(s)
    \/ \E s \in 1..ParamSessions : PredictDone(s)
    \/ \E s \in 1..ParamSessions : PredictEnd(s)

ParamSpec == Init /\ [][ParamNext]_vars

\* V1Spec: V1Sessions concurrent /v1/chat/completions requests, streaming or
\* not, with generate calls that hand over up to MaxFrags texts or fail.
V1Next ==
    \/ \E s \in 1..V1Sessions, r \in PlainParams, stream \in BOOLEAN,
          messages \in PlainMessages : V1Start(s, r, stream, messages)
    \/ \E s \in 1..V1Sessions, output \in PlainOutputs : V1Return(s, output)
    \/ \E s \in 1..V1Sessions : V1Raise(s)
    \/ \E s \in 1..V1Sessions : PredictInit(s)
    \/ \E s \in 1..V1Sessions : PredictSetup(s)
    \/ \E s \in 1..V1Sessions : PredictGet(s)
    \/ \E s \in 1..V1Sessions : PredictResume(s)
    \/ \E s \in 1..V1Sessions : PredictDone(s)
    \/ \E s \in 1..V1Sessions : PredictEnd(s)
    \/ \E s \in 1..V1Sessions : GenBegin(s)
    \/ \E s \in 1..V1Sessions, t \in FragTexts : GenPut(s, t)
    \/ \E s \in 1..V1Sessions : GenEnd(s)
    \/ \E s \in 1..V1Sessions : GenFail(s)

V1Spec == Init /\ [][V1Next]_vars

\* MsgSpec: one /v1/chat/completions request, streaming or not, with any
\* list of up to MaxMessages messages, up to the point where its query and
\* history are built.
MsgNext ==
    /\ session[1].kind = "none"
    /\ \E r \in PlainParams, stream \in BOOLEAN, messages \in Messages :
          V1Start(1, r, stream, messages)

MsgSpec == Init /\ [][MsgNext]_vars

\* PromptSpec: one /chat or /stream_chat request with any prompt of up to
\* MaxPrompt characters and any history of up to MaxHistory turns, up to
\* the point where its model input is built and generation is started.
PromptNext ==
    \/ /\ session[1].kind = "none"
       /\ \E r \in PlainParams, b \in Bodies : ChatStart(1, r, b)
    \/ /\ session[1].kind = "none"
       /\ \E r \in PlainParams, b \in Bodies : StreamStart(1, r, b)
    \/ StreamInit(1)

PromptSpec == Init /\ [][PromptNext]_vars

\* AnswerSpec: one /chat or non-streaming /v1/chat/completions request of
\* one message whose generate call returns any sequence of up to MaxTokens
\* tokens.
AnswerNext ==
    \/ /\ session[1].kind = "none"
       /\ \E r \in PlainParams, b \in PlainBodies : ChatStart(1, r, b)
    \/ \E output \in Outputs : ChatReturn(1, output)
    \/ /\ session[1].kind = "none"
       /\ \E r \in PlainParams, messages \in PlainMessages :
             V1Start(1, r, FALSE, messages)
    \/ GenEnd(1)
    \/ \E output \in Outputs : V1Return(1, output)

AnswerSpec == Init /\ [][AnswerNext]_vars

\* ------------------------------------------------------------ claims
\* a /stream_chat request whose stream is over (the generator has yielded
\* its last event or has raised)
StreamOver(s) ==
    /\ session[s].kind = "stream"
    /\ session[s].pc \in {"sg_finish_yielded", "done", "crashed"}

\* C1: in a /stream_chat stream that no disconnect cut short, the events
\* are one new_message per fragment the request's generate call produced,
\* in that order and with that text, then exactly one finish event, which
\* alone has finish = true; this for every fragment sequence, the empty
\* one too.
C1_StreamShape ==
    \A s \in Sessions :
        (StreamOver(s) /\ ~session[s].saw_disconnect) =>
            LET ev == session[s].events
                fr == gen[s].out
                n == Len(fr)
            IN /\ gen[s].state = "ended"
               /\ Len(ev) = n + 1
               /\ \A i \in 1..n : /\ ev[i].event = "new_message"
                                  /\ ev[i].response = fr[i]
                                  /\ ~ev[i].finish
               /\ ev[n + 1].event = "finish"
               /\ ev[n + 1].finish

\* C2: once request.is_disconnected() has returned true, the event
\* generator of /stream_chat yields no further event, new_message or finish.
C2_SilentAfterDisconnect ==
    \A s \in Sessions :
        session[s].saw_disconnect =>
            Len(session[s].events) = session[s].events_at_detect

\* C3: when the disconnect is detected while the generation thread of the
\* session is still at work, the thread is stopped: it hands over at most
\* one more fragment and does not reach its normal end of generation.
C3_WorkerStopped ==
    \A s \in Sessions :
        (session[s].saw_disconnect /\ session[s].running_at_detect) =>
            /\ gen[s].produced <= session[s].produced_at_detect + 1
            /\ gen[s].state # "ended"

\* C5: every event delivered on a stream carries text that the stream's own
\* request generated, and a stream is ended only by the stop signal of its
\* own generate call: nothing another request generates enters it.
C5_NoCrossTalk ==
    \A s \in Sessions :
        /\ \A i \in 1..Len(session[s].events) :
              session[s].events[i].by \in {None, s}
        /\ \A i \in 1..Len(session[s].taken) : session[s].taken[i].by = s
        /\ \A i \in 1..Len(text_queue[s]) : text_queue[s][i].by = s

\* the loop thread is inside a synchronous call that waits for the model
\* (/chat's model.generate) or for a streamer's queue that is empty
LoopBlocked ==
    \E s \in Sessions :
        /\ loop = s
        /\ \/ session[s].pc = "chat_generate"
           \/ /\ session[s].pc \in {"sg_get", "pr_get"}
              /\ text_queue[s] = <<>>

\* C6: while a generation is in progress the event loop is never inside a
\* synchronous wait on the model or on a fragment queue, so it stays able
\* to accept and progress other requests.
C6_LoopNeverBlocked == ~LoopBlocked

\* the handler of s waits, on the loop thread, on the queue of a streamer
\* that is empty, whose own generate call has raised and that no running
\* generate call writes to: no item will ever arrive
WaitsOnDeadWorker(s) ==
    /\ gen[s].state = "failed"
    /\ loop = s
    /\ session[s].pc \in {"sg_get", "pr_get"}
    /\ text_queue[s] = <<>>
    /\ \A k \in Sessions :
          gen[k].state = "running" => gen[k].kwargs.streamer # s

\* C10: when the generate call of a stream fails, the handler does not wait
\* for a fragment that will not arrive, and the stream, once over, ends
\* with an error frame.
C10_FailureEndsStream ==
    \A s \in Sessions :
        /\ ~WaitsOnDeadWorker(s)
        /\ (gen[s].state = "failed"
              /\ session[s].pc \in {"sg_finish_yielded", "pr_done_yielded",
                                    "done", "crashed"}
              /\ (session[s].kind = "stream" \/ session[s].stream)) =>
               /\ session[s].events # <<>>
               /\ session[s].events[Len(session[s].events)].event = "error"

\* the value the documented order gives: the request's, else the
\* process-wide one at the time of the request, else the fallback
Documented(requested, default, fallback) ==
    IF requested # None THEN requested
    ELSE IF default # None THEN default ELSE fallback

\* a model.generate call was made for s
Called(s) == gen[s].state \in {"running", "ended", "failed"}

\* C8: on every generating endpoint the max length, top_p and temperature
\* of the generate call are the request's value if it supplied one,
\* otherwise the process-wide default, otherwise 1024, 0.95, 0.8.
C8_ParamsResolved ==
    \A s \in Sessions :
        Called(s) =>
            /\ gen[s].kwargs.max_length =
                 Documented(session[s].req.max_generate_length,
                            session[s].defaults.max_generate_length,
                            FallbackMaxLength)
            /\ gen[s].kwargs.top_p =
                 Documented(session[s].req.top_p, session[s].defaults.top_p,
                            FallbackTopP)
            /\ gen[s].kwargs.temperature =
                 Documented(session[s].req.temperature,
                            session[s].defaults.temperature,
                            FallbackTemperature)

\* a /chat or /stream_chat request has been through lines 95-108 / 150-163
Resolved(s) == session[s].kind \in {"chat", "stream"}

\* the effective max generation length of request s
Effective(s) ==
    Documented(session[s].req.max_generate_length,
               session[s].defaults.max_generate_length, FallbackMaxLength)

\* C9 as claimed: once a request has set the max length, the tokenizer
\* window is at least the effective max length of the latest request.
C9_WindowAtLeast ==
    (\E s \in Sessions : Resolved(s)) =>
        model_max_length >= generation_kwargs.max_length

\* C9 as amended: the window is never above its initial value and is at
\* most the effective max length of every /chat and /stream_chat request
\* served so far (a larger window is cut down to it, never enlarged).
C9_WindowAtMost ==
    /\ model_max_length <= ModelMaxLength
    /\ \A s \in Sessions : Resolved(s) => model_max_length <= Effective(s)
    /\ (\E s \in Sessions : Resolved(s)) =>
          model_max_length <= generation_kwargs.max_length

\* C9 witness: a request asked for more than the window, which was not
\* enlarged, and a request asked for less, to which the window was cut
C9_Witness ==
    /\ \E s \in Sessions :
          /\ Resolved(s)
          /\ session[s].req.max_generate_length = 2048
          /\ model_max_length < 2048
    /\ \E s \in Sessions :
          /\ Resolved(s)
          /\ session[s].req.max_generate_length = 512
          /\ model_max_length = 512

\* C4: a /v1/chat/completions request whose last message is not from the
\* user is answered 400 in the step that receives it, and that step
\* tokenizes nothing, calls no generate, starts no thread and leaves
\* generation_kwargs, the tokenizer and every streamer as they were; the
\* request stays rejected.
C4_RejectedFirst ==
    [][\A s \in Sessions :
          /\ (session[s].kind = "none" /\ session'[s].kind = "v1"
                /\ session'[s].last_role # "user") =>
                 /\ session'[s].pc = "rejected400"
                 /\ ~session'[s].tokenized
                 /\ gen' = gen
                 /\ gen[s].state = "none"
                 /\ generation_kwargs' = generation_kwargs
                 /\ model_max_length' = model_max_length
                 /\ text_queue' = text_queue
          /\ session[s].pc = "rejected400" =>
                 /\ session'[s] = session[s]
                 /\ gen'[s] = gen[s]]_vars

\* C4 witness: a request ending in a system message and one ending in an
\* assistant message have both been rejected
C4_Witness ==
    /\ \E s \in Sessions : /\ session[s].pc = "rejected400"
                           /\ session[s].last_role = "system"
    /\ \E s \in Sessions : /\ session[s].pc = "rejected400"
                           /\ session[s].last_role = "assistant"

\* a streaming /v1/chat/completions request
V1Stream(s) ==
    /\ session[s].kind = "v1"
    /\ session[s].stream
    /\ session[s].pc # "rejected400"

\* one content chunk per fragment of fr, in order
ContentChunks(fr) ==
    [i \in 1..Len(fr) |->
        Event("content", fr[i].text, <<>>, FALSE, fr[i].by)]

WithText(item) == Len(item.text) > 0

RoleChunk == Event("role", <<>>, <<>>, FALSE, None)
StopChunk == Event("stop", <<>>, <<>>, TRUE, None)
DoneMarker == Event("DONE", <<>>, <<>>, FALSE, None)

\* what a streaming /v1 request has emitted at its position, with one
\* content chunk per fragment of fr
Emitted(s, fr) ==
    LET pc == session[s].pc
        chunks == ContentChunks(fr)
    IN IF pc = "pr_init" THEN <<>>
       ELSE <<RoleChunk>> \o chunks
              \o (IF pc \in {"pr_stop_yielded", "pr_done_yielded", "done"}
                  THEN <<StopChunk>> ELSE <<>>)
              \o (IF pc \in {"pr_done_yielded", "done"}
                  THEN <<DoneMarker>> ELSE <<>>)

\* C7 as claimed: a finished streaming /v1 response is the role chunk, one
\* content chunk per fragment the streamer handed over, in order and with
\* its text, the stop chunk, and [DONE] last.
C7_ChunkPerFragment ==
    \A s \in Sessions :
        (V1Stream(s) /\ session[s].pc = "done") =>
            session[s].events = Emitted(s, session[s].taken)

\* C7 as amended: at every point of a streaming /v1 response the items
\* emitted are the role chunk, then one content chunk per fragment with
\* text (a fragment with empty text gets no chunk), in order, and, once
\* the streamer has signalled the end, the stop chunk and then [DONE].
C7_ChunkPerTextFragment ==
    \A s \in Sessions :
        V1Stream(s) =>
            session[s].events =
                Emitted(s, SelectSeq(session[s].taken, WithText))

\* C7 witness: a finished streaming response whose streamer handed over a
\* fragment with text and an empty one
C7_Witness ==
    \E s \in Sessions :
        /\ V1Stream(s)
        /\ session[s].pc = "done"
        /\ \E i, j \in 1..Len(session[s].taken) :
              /\ session[s].taken[i].text = <<>>
              /\ session[s].taken[j].text # <<>>

\* a session of a generating endpoint that has ended: the answer or the
\* last item of the stream was sent, or an exception left the handler
Ended(s) ==
    /\ session[s].kind \in {"chat", "stream", "v1"}
    /\ session[s].pc \in {"done", "error500", "crashed"}

\* C11: every session of a generating endpoint that has ended, however it
\* ended (answer sent, client gone, generate raised), has had exactly one
\* torch_gc pass.
C11_ReclaimedAtEnd ==
    \A s \in Sessions : Ended(s) => session[s].gc = 1

\* a /chat request that has been answered or refused, and whose generate
\* call (if it came to one) did not raise
ChatOver(s) ==
    /\ session[s].kind = "chat"
    /\ session[s].pc \in {"done", "error500"}
    /\ gen[s].state # "failed"

\* C12: a /chat request with a prompt and a history list is answered with
\* status 200 and with a history that is the request's history, unchanged
\* and in order, followed by the one turn (prompt, response), response
\* being the response field of the answer.
C12_ChatAppendsTurn ==
    \A s \in Sessions :
        ChatOver(s) =>
            /\ session[s].pc = "done"
            /\ session[s].answer.status = 200
            /\ session[s].answer.history =
                 session[s].history
                   \o << <<session[s].prompt, session[s].answer.response>> >>

\* a /v1/chat/completions request that passed the role check
V1Accepted(s) ==
    /\ session[s].kind = "v1"
    /\ session[s].pc # "rejected400"

\* the messages before the last one
BeforeLast(s) ==
    SubSeq(session[s].messages, 1, Len(session[s].messages) - 1)

\* the prior messages: those before the last, without a leading system
\* message
PriorMessages(s) ==
    LET p == BeforeLast(s)
    IN IF p # <<>> /\ p[1].role = "system" THEN SubSeq(p, 2, Len(p)) ELSE p

\* the consecutive pairs (1,2), (3,4), .. of p
PairsOf(p) == [k \in 1..(Len(p) \div 2) |-> <<p[2 * k - 1], p[2 * k]>>]

UserAssistant(pair) ==
    pair[1].role = "user" /\ pair[2].role = "assistant"

ContentsOf(pairs) ==
    [k \in 1..Len(pairs) |-> <<pairs[k][1].content, pairs[k][2].content>>]

\* C13: the history of an accepted /v1/chat/completions request is empty
\* when the number of prior messages is odd, and otherwise the contents of
\* the consecutive pairs of prior messages whose roles are (user,
\* assistant), in order, the other pairs being left out; neither case is
\* an error.
C13_HistoryFromPairs ==
    \A s \in Sessions :
        V1Accepted(s) =>
            /\ session[s].pc # "error500"
            /\ session[s].history =
                 IF Len(PriorMessages(s)) % 2 = 1 THEN <<>>
                 ELSE ContentsOf(SelectSeq(PairsOf(PriorMessages(s)),
                                           UserAssistant))

\* C13 witness: of four prior messages one pair is kept and one left out
C13_Witness ==
    \E s \in Sessions :
        /\ V1Accepted(s)
        /\ Len(PriorMessages(s)) = 4
        /\ Len(session[s].history) = 1

\* C18: when the first of the messages before the last is a system
\* message, the query is its content followed by the content of the last
\* message and the history is built from the messages after it; otherwise
\* the query is the content of the last message alone, whatever system
\* messages stand elsewhere, and the history is built from all the
\* messages before the last.
C18_LeadingSystemOnly ==
    \A s \in Sessions :
        V1Accepted(s) =>
            LET m == session[s].messages
                last == m[Len(m)]
                p == BeforeLast(s)
            IN IF p # <<>> /\ p[1].role = "system"
               THEN /\ session[s].prompt = p[1].content \o last.content
                    /\ session[s].history = V1History(SubSeq(p, 2, Len(p)))
               ELSE /\ session[s].prompt = last.content
                    /\ session[s].history = V1History(p)

\* C18 witness: a leading system message was put in front of the query and
\* the two messages after it made the one turn of the history
C18_Witness ==
    \E s \in Sessions :
        /\ V1Accepted(s)
        /\ Len(session[s].messages) = 4
        /\ session[s].messages[1].role = "system"
        /\ session[s].messages[1].content # session[s].messages[4].content
        /\ Len(session[s].prompt) = 2
        /\ Len(session[s].history) = 1

\* one instruction/response block
Block(query, response) ==
    InstructionMark \o query \o ResponseMark \o response

\* the blocks of a conversation: one per turn of the history, then the
\* block of the query, whose response slot is empty
BlocksOf(query, history) ==
    [i \in 1..(Len(history) + 1) |->
        IF i <= Len(history) THEN Block(history[i][1], history[i][2])
        ELSE Block(query, <<>>)]

\* the texts of a sequence, one after the other
Join(texts) ==
    LET joined[i \in 0..Len(texts)] ==
            IF i = 0 THEN <<>> ELSE joined[i - 1] \o texts[i]
    IN joined[Len(texts)]

\* the number of places of text at which mark stands
Occurrences(text, mark) ==
    Cardinality({i \in 1..(Len(text) - Len(mark) + 1) :
                    SubSeq(text, i, i + Len(mark) - 1) = mark})

\* C14: what get_prompt returns for a query and a history is the blocks of
\* the turns of the history, in their order and each with the turn's query
\* and response, followed by the block of the query with nothing after its
\* response mark: len(history) + 1 blocks, one for an empty history.
C14_OneBlockPerTurn ==
    \A s \in Sessions :
        session[s].tokenized =>
            LET query == session[s].query
                history == session[s].history
                prompt == session[s].rendered
            IN /\ prompt = Join(BlocksOf(query, history))
               /\ Occurrences(prompt, InstructionMark) = Len(history) + 1
               /\ Occurrences(prompt, ResponseMark) = Len(history) + 1

\* C14 witness: a prompt rendered from a query and two different turns
C14_Witness ==
    \E s \in Sessions :
        /\ session[s].tokenized
        /\ session[s].query # <<>>
        /\ Len(session[s].history) = 2
        /\ session[s].history[1] # session[s].history[2]
        /\ Len(session[s].rendered) > 3 * Len(InstructionMark)

\* the texts of the fragments a streamer handed over
TextsOf(items) == [i \in 1..Len(items) |-> items[i].text]

\* the response fields of the events of a stream
ResponsesOf(events) == [i \in 1..Len(events) |-> events[i].response]

\* C15: in a /stream_chat stream that has sent its finish event, the
\* response fields of its events, joined in order, are the texts of the
\* fragments its streamer handed over, joined in order: every fragment's
\* text is sent once and none twice.
C15_EachFragmentOnce ==
    \A s \in Sessions :
        (session[s].kind = "stream"
           /\ session[s].pc \in {"sg_finish_yielded", "done"}) =>
            Join(ResponsesOf(session[s].events))
                = Join(TextsOf(session[s].taken))

\* the number of fragments handed over up to and including the one that
\* event i of the stream of s carries: the i-th for a new_message event,
\* the last one for the finish event
CarriedUpTo(s, i) ==
    IF session[s].events[i].event = "finish" THEN Len(session[s].taken)
    ELSE i

\* C16: the history field of every event of a /stream_chat stream is the
\* request's history followed by the one turn (prompt, accumulated
\* response), the accumulated response being the texts of the fragments
\* up to and including the one the event carries, joined in order.
C16_HistoryIncludesFragment ==
    \A s \in Sessions :
        session[s].kind = "stream" =>
            \A i \in 1..Len(session[s].events) :
                session[s].events[i].history =
                    session[s].history
                      \o << <<session[s].prompt,
                              Join(TextsOf(SubSeq(session[s].taken, 1,
                                                  CarriedUpTo(s, i))))>> >>

\* the generation parameters, by their key in generation_kwargs
ParamKeys == {"max_length", "top_p", "temperature"}

\* the value request s carries for a key (None: it omits it)
Supplied(s, key) ==
    IF key = "max_length" THEN session[s].req.max_generate_length
    ELSE session[s].req[key]

\* the process-wide value of a key when the first request arrived
StartValue(key) ==
    IF key = "max_length" THEN session[1].defaults.max_generate_length
    ELSE session[1].defaults[key]

\* the value of the latest of the requests 1..n that was not refused and
\* supplied the key, or the start value if none did
LatestSupplied(n, key) ==
    LET suppliers == {k \in 1..n : /\ session[k].pc # "rejected400"
                                   /\ Supplied(k, key) # None}
    IN IF suppliers = {} THEN StartValue(key)
       ELSE Supplied(CHOOSE k \in suppliers : \A j \in suppliers : j <= k,
                     key)

\* C17: the process-wide value of each generation parameter is the value
\* of the latest request that supplied it (requests that omit it leave it
\* as it is), and the generate call of a request that omits a parameter
\* runs with the value of the latest earlier request that supplied it.
C17_SuppliedBecomesDefault ==
    \A key \in ParamKeys :
        LET arrived == {s \in Sessions : session[s].kind # "none"}
        IN arrived # {} =>
             /\ generation_kwargs[key]
                   = LatestSupplied(Cardinality(arrived), key)
             /\ \A s \in arrived :
                   (Called(s) /\ Supplied(s, key) = None) =>
                       gen[s].kwargs[key] = LatestSupplied(s - 1, key)

\* a text without its leading and trailing newlines
TrimNewlines(text) == LStrip(RStrip(text, {"\n"}), {"\n"})

\* C19: on every generating path the query handed to get_prompt is the
\* request's query without its leading and trailing newlines, and the
\* text handed to the tokenizer is what get_prompt makes of that query
\* and the history: a function of query and history alone, the same on
\* /chat, /stream_chat and both kinds of /v1/chat/completions.
C19_SameModelInput ==
    \A s \in Sessions :
        session[s].tokenized =>
            /\ session[s].query = TrimNewlines(session[s].prompt)
            /\ session[s].input_text =
                 get_prompt(TrimNewlines(session[s].prompt),
                            session[s].history)

\* a non-streaming request that has been answered
Answered(s) ==
    /\ session[s].kind \in {"chat", "v1"}
    /\ ~session[s].stream
    /\ session[s].pc = "done"

NotEos(tok) == tok # EosToken

\* the decoded texts of the tokens of output other than eos, joined
GeneratedText(output) ==
    LET kept == SelectSeq(output, NotEos)
    IN Join([i \in 1..Len(kept) |-> Decode(kept[i])])

\* text without suffix at its end, if it ends with it
RemoveSuffix(text, suffix) ==
    IF /\ Len(text) >= Len(suffix)
       /\ SubSeq(text, Len(text) - Len(suffix) + 1, Len(text)) = suffix
    THEN SubSeq(text, 1, Len(text) - Len(suffix))
    ELSE text

\* C20: the text of a non-streaming answer is the decoded generated
\* tokens other than eos, joined in order, without its leading newlines
\* and without the one literal suffix "\n### Response:" if it ends with
\* it; no other character is taken from its end.
C20_OnlySuffixRemoved ==
    \A s \in Sessions :
        Answered(s) =>
            session[s].answer.response =
                RemoveSuffix(LStrip(GeneratedText(session[s].output), {"\n"}),
                             ResponseSuffix)

\* the inputs a request stores or passes besides the generation
\* parameters: token tensors, attention mask, streamer
InputKeys == {"input_ids", "attention_mask", "streamer"}

\* C21: once a request has completed, generation_kwargs holds none of its
\* inputs; every generate call runs with the token tensors and attention
\* mask of its own request and with no streamer but its own request's;
\* and a /chat request is never refused for having been served after
\* other requests (it fails only if its generate call raises).
C21_NoInputsLeftBehind ==
    \A s \in Sessions :
        /\ Ended(s) => \A key \in InputKeys : generation_kwargs[key] # s
        /\ Called(s) =>
              /\ gen[s].kwargs.input_ids = s
              /\ gen[s].kwargs.attention_mask = s
              /\ gen[s].kwargs.streamer =
                    IF session[s].kind = "stream" \/ session[s].stream
                    THEN s ELSE None
        /\ (session[s].kind = "chat" /\ session[s].pc = "error500") =>
              gen[s].state = "failed"

====
